---- MODULE Spec2Model ----
(***************************************************************************)
(* The two notebooks that prepare the input files of the regional model:   *)
(* "Creating the Initial Conditions" (src/unnamed/part_000) and            *)
(* "Creating the External Forcing Conditions".  A notebook is a sequential *)
(* script; every cell, and every iteration of a cell's outer loop, is one  *)
(* step.  Arrays are functions on 0..n-1, as in numpy.  Numbers are        *)
(* integers: an open fraction hFac is counted in units of 1/HFacDen, a     *)
(* forcing value in hundredths of its unit.                                *)
(***************************************************************************)
EXTENDS Integers, Sequences, FiniteSets, TLC

\* ------------------------------------------------------------------ sizes
\* np.size(ecco_RF_tiles[1]): the number of vertical levels of the source
NLev == 2
\* the tiles of the source grid are TileRows x TileCols arrays
TileRows == 2
TileCols == 2
\* the source grid has tiles 1..NTiles; a field's tile axis is 0..NTiles-1
NTiles == 13
\* the target grid is n_rows x n_cols
n_rows == 2
n_cols == 2
\* an open fraction f is stored as the integer f * HFacDen
HFacDen == 2
\* the number of longitude offsets and of value patterns the input arrays
\* are drawn with
NGeo == 2
NSeeds == 2

Levels == 0..(NLev - 1)
TileNumbers == 1..NTiles
TilePts == TileRows * TileCols

\* ------------------------------------------------------------ numpy helpers
Range0(n) == 0..(n - 1)

\* A.ravel() of a 2-D array of shape (rows, cols), order 'C'
Ravel2(A, rows, cols) == [n \in Range0(rows * cols) |-> A[n \div cols][n % cols]]

\* the number of TRUE entries of the boolean array b among its first n entries
RECURSIVE CountTrue(_, _)
CountTrue(b, n) == IF n = 0 THEN 0 ELSE CountTrue(b, n - 1) + (IF b[n - 1] THEN 1 ELSE 0)

\* the index in a of the (m+1)-th TRUE entry of the boolean array b of length n
NthTrue(b, n, m) == CHOOSE q \in Range0(n) : b[q] /\ CountTrue(b, q) = m

\* a[b] for a 1-D array a and a boolean array b of the same length n
BoolIndex(a, b, n) == [m \in Range0(CountTrue(b, n)) |-> a[NthTrue(b, n, m)]]

\* a[:, b] for a 2-D array a of nl rows
BoolIndexCols(a, b, n, nl) == [k \in Range0(nl) |-> BoolIndex(a[k], b, n)]

\* the array a with a[lo:lo+len] = src
SliceAssign(a, lo, len, src) ==
    [q \in DOMAIN a |-> IF q >= lo /\ q < lo + len THEN src[q - lo] ELSE a[q]]

\* np.zeros((n,)) and np.zeros((nl, n))
Zeros1(n) == [q \in Range0(n) |-> 0]
Zeros2(nl, n) == [k \in Range0(nl) |-> Zeros1(n)]


\* ------------------------------------------------------------------ inputs
\* What the notebooks read from disk and from the grid reader is fixed before
\* the first cell runs; it is drawn here from families of arrays indexed by
\* the input variables in_geo, in_hc, in_seed and in_tm.
VARIABLES notebook, pc, in_geo, in_hc, in_seed, in_tm, in_fcols, in_nt, tile_list

\* the values a field file can hold; 16777217 = 2^24 + 1 is not a float32
ValTable == <<3, -4, 10, 0, 7, 16777217, -1>>

\* longitude and latitude of the cell (i, j) of tile t
TileLon(t, i, j) == (((t * 2) % 5) - 4) + 2 * j + in_geo
TileLat(t, i, j) == ((t \div 3) % 3) - 1 + i

ecco_XC_tiles ==
    [t \in TileNumbers |-> [i \in Range0(TileRows) |-> [j \in Range0(TileCols) |-> TileLon(t, i, j)]]]
ecco_YC_tiles ==
    [t \in TileNumbers |-> [i \in Range0(TileRows) |-> [j \in Range0(TileCols) |-> TileLat(t, i, j)]]]

\* the open fraction of the cell centre: everywhere open, the deepest level
\* closed, a single open cell, the top level closed (a cavity), or a mixed
\* pattern
SrcMaskKinds == 0..4
SrcHFacC(k, t, i, j) ==
    CASE in_hc = 0 -> HFacDen
      [] in_hc = 1 -> IF k = NLev - 1 THEN 0 ELSE HFacDen
      [] in_hc = 2 -> IF t = 8 /\ i = 0 /\ j = 0 THEN 1 ELSE 0
      [] in_hc = 3 -> IF k = 0 THEN 0 ELSE HFacDen
      [] in_hc = 4 -> (t + k + i * in_hc + j) % (HFacDen + 1)

ecco_hFacC_tiles ==
    [t \in TileNumbers |-> [k \in Levels |-> [i \in Range0(TileRows) |->
        [j \in Range0(TileCols) |-> SrcHFacC(k, t, i, j)]]]]
ecco_hFacW_tiles ==
    [t \in TileNumbers |-> [k \in Levels |-> [i \in Range0(TileRows) |->
        [j \in Range0(TileCols) |-> (in_seed + k + i + 2 * j + t) % (HFacDen + 1)]]]]
ecco_hFacS_tiles ==
    [t \in TileNumbers |-> [k \in Levels |-> [i \in Range0(TileRows) |->
        [j \in Range0(TileCols) |-> (in_seed + 1 + k + 2 * i + j + t) % (HFacDen + 1)]]]]

\* the variables of the initial-condition notebook and the variable each one's
\* file holds
file_prefix_dict ==
    [ETAN |-> "ETAN", THETA |-> "THETA", SALT |-> "SALT", UVEL |-> "UVELMASS", VVEL |-> "VVELMASS"]
variable_names == <<"ETAN", "THETA", "SALT", "UVEL", "VVEL">>

NcOrdinal(name) ==
    CASE name = "ETAN" -> 0 [] name = "THETA" -> 1 [] name = "SALT" -> 2
      [] name = "UVELMASS" -> 3 [] name = "VVELMASS" -> 4

\* ds.variables[name] at time 0: [k][tile index][i][j]; ETAN has no level axis
NcValue(name, k, tx, i, j) ==
    ValTable[1 + ((in_seed + 3 * NcOrdinal(name) + 5 * k + 2 * tx + 2 * i + j) % Len(ValTable))]
\* the tiles of the field files have in_fcols columns: TileCols as the
\* tiles of the grid files have, or one more
FieldCols == {TileCols, TileCols + 1}
NcField(name) ==
    [k \in Levels |-> [tx \in Range0(NTiles) |-> [i \in Range0(TileRows) |->
        [j \in Range0(in_fcols) |-> NcValue(name, k, tx, i, j)]]]]
NcSurface(name) ==
    [tx \in Range0(NTiles) |-> [i \in Range0(TileRows) |->
        [j \in Range0(in_fcols) |-> NcValue(name, 0, tx, i, j)]]]

\* the tile lists the cell is run with; the notebook as written uses [8, 11]
TileLists == {<<8, 11>>, <<11, 3>>}

\* ------------------------------------------------------------ target grid
\* len(delR): the number of vertical levels of the target grid
Nr == NLev
xgOrigin == -2
ygOrigin == 0

\* XC, YC = np.meshgrid(xc, yc), in cells of the target grid
XC == [i \in Range0(n_rows) |-> [j \in Range0(n_cols) |-> xgOrigin + j]]
YC == [i \in Range0(n_rows) |-> [j \in Range0(n_cols) |-> ygOrigin + i]]

\* hFac.create_hFacC_grid(depth, delR): open everywhere, a checkerboard of
\* land and ocean, or a sloping bottom with a partial bottom cell
TargetMaskKinds == 0..2
TargetHFacC(k, i, j) ==
    CASE in_tm = 0 -> HFacDen
      [] in_tm = 1 -> IF (i + j) % 2 = 0 THEN HFacDen ELSE 0
      [] in_tm = 2 -> IF k + 1 < (i + 2 * j) % (Nr + 1) THEN HFacDen
                      ELSE IF k + 1 = (i + 2 * j) % (Nr + 1) THEN 1 ELSE 0
hFacC == [k \in Range0(Nr) |-> [i \in Range0(n_rows) |-> [j \in Range0(n_cols) |-> TargetHFacC(k, i, j)]]]

\* ------------------------------------------- initial conditions: the state
VARIABLES mask, total_points, points_counted, tile_pos, ecco_XC_points, ecco_YC_points,
          ecco_hFacC_points, ecco_hFacW_points, ecco_hFacS_points, ecco_mask_points,
          local_indices, grid, init_grids, CA_init_grids

\* the state of the external forcing notebook
VARIABLES exf_lon, exf_lat, exf_grids, ecco_points, ecco_mask, surface_mask, timestep

\* the forcing notebook's plotting loop: its index i and the grid read back
VARIABLES plot_i, CA_exf_grid

\* both notebooks bind these names: the loop variable of the loops over the
\* variables, the grid and the file of the interpolation loop, and the files
\* of input_dir
VARIABLES var_pos, interpolated_grid, output_file, files

\* a name that is not bound yet
Unset == <<>>

inVars == <<notebook, in_geo, in_hc, in_seed, in_tm, in_fcols, in_nt, tile_list>>
pointVars == <<total_points, ecco_XC_points, ecco_YC_points, ecco_hFacC_points,
               ecco_hFacW_points, ecco_hFacS_points, ecco_mask_points, local_indices>>
loopVars == <<points_counted, tile_pos>>
icVars == <<mask, pointVars, loopVars, grid, init_grids, CA_init_grids>>
plotVars == <<plot_i, CA_exf_grid>>
exfVars == <<exf_lon, exf_lat, exf_grids, ecco_points, ecco_mask, surface_mask, timestep,
             plotVars>>
outVars == <<interpolated_grid, output_file, files>>

\* mask = np.copy(hFacC); mask[mask>0] = 1
MaskOf(hFac) ==
    [k \in DOMAIN hFac |-> [i \in DOMAIN hFac[k] |-> [j \in DOMAIN hFac[k][i] |->
        IF hFac[k][i][j] > 0 THEN 1 ELSE hFac[k][i][j]]]]

MakeMask ==
    /\ notebook = "ic" /\ pc = "mask"
    /\ mask' = MaskOf(hFacC)
    /\ pc' = "alloc"
    /\ UNCHANGED <<inVars, exfVars, outVars, pointVars, loopVars, grid, init_grids,
                   CA_init_grids, var_pos>>

\* np.size(ecco_XC_tiles[tile_number])
TileSize(tile_number) ==
    Cardinality(DOMAIN ecco_XC_tiles[tile_number]) * Cardinality(DOMAIN ecco_XC_tiles[tile_number][0])

\* the points counted after the first n tiles of the tile list tl
RECURSIVE SumTileSizes(_, _)
SumTileSizes(tl, n) == IF n = 0 THEN 0 ELSE SumTileSizes(tl, n - 1) + TileSize(tl[n])

\* the empty arrays to fill in, for total points
AllocatedPoints(total) ==
    [XC |-> Zeros1(total), YC |-> Zeros1(total), hFacC |-> Zeros2(NLev, total),
     hFacW |-> Zeros2(NLev, total), hFacS |-> Zeros2(NLev, total), mask |-> Zeros2(NLev, total)]

\* the point arrays of the notebook, as one record
PointArrays ==
    [XC |-> ecco_XC_points, YC |-> ecco_YC_points, hFacC |-> ecco_hFacC_points,
     hFacW |-> ecco_hFacW_points, hFacS |-> ecco_hFacS_points, mask |-> ecco_mask_points]

SetPointArrays(P) ==
    /\ ecco_XC_points' = P.XC
    /\ ecco_YC_points' = P.YC
    /\ ecco_hFacC_points' = P.hFacC
    /\ ecco_hFacW_points' = P.hFacW
    /\ ecco_hFacS_points' = P.hFacS
    /\ ecco_mask_points' = P.mask

AllocPoints ==
    /\ notebook = "ic" /\ pc = "alloc"
    /\ total_points' = SumTileSizes(tile_list, Len(tile_list))
    /\ SetPointArrays(AllocatedPoints(total_points'))
    /\ points_counted' = 0
    /\ tile_pos' = 1
    /\ pc' = "concat"
    /\ UNCHANGED <<inVars, exfVars, outVars, mask, local_indices, grid, init_grids,
                   CA_init_grids, var_pos>>

\* level_mask = np.copy(level_hFacC); level_mask[level_mask>0] = 1
LevelMask(level_hFacC) ==
    [i \in DOMAIN level_hFacC |-> [j \in DOMAIN level_hFacC[i] |->
        IF level_hFacC[i][j] > 0 THEN 1 ELSE level_hFacC[i][j]]]

\* the body of the loop over tile_list with the offset left out: the points
\* of every tile are written to the block 0 .. tile_N - 1
ConcatStepAtZero(P, counted, tile_number) ==
    LET tile_N == TileSize(tile_number)
        Put1(a1, tiles) ==
            SliceAssign(a1, 0, tile_N, Ravel2(tiles[tile_number], TileRows, TileCols))
        Put2(a2, tiles) ==
            [k \in Levels |-> SliceAssign(a2[k], 0, tile_N,
                                          Ravel2(tiles[tile_number][k], TileRows, TileCols))]
    IN [XC |-> Put1(P.XC, ecco_XC_tiles),
        YC |-> Put1(P.YC, ecco_YC_tiles),
        hFacC |-> Put2(P.hFacC, ecco_hFacC_tiles),
        hFacW |-> Put2(P.hFacW, ecco_hFacW_tiles),
        hFacS |-> Put2(P.hFacS, ecco_hFacS_tiles),
        mask |-> [k \in Levels |-> SliceAssign(P.mask[k], 0, tile_N,
                     Ravel2(LevelMask(ecco_hFacC_tiles[tile_number][k]), TileRows, TileCols))]]

\* the body of the loop over tile_list: the points of the tile are written
\* to the block counted .. counted + tile_N - 1 of every array
ConcatStep(P, counted, tile_number) ==
    LET tile_N == TileSize(tile_number)
        Put1(a1, tiles) ==
            SliceAssign(a1, counted, tile_N, Ravel2(tiles[tile_number], TileRows, TileCols))
        Put2(a2, tiles) ==
            [k \in Levels |-> SliceAssign(a2[k], counted, tile_N,
                                          Ravel2(tiles[tile_number][k], TileRows, TileCols))]
    IN [XC |-> Put1(P.XC, ecco_XC_tiles),
        YC |-> Put1(P.YC, ecco_YC_tiles),
        hFacC |-> Put2(P.hFacC, ecco_hFacC_tiles),
        hFacW |-> Put2(P.hFacW, ecco_hFacW_tiles),
        hFacS |-> Put2(P.hFacS, ecco_hFacS_tiles),
        mask |-> [k \in Levels |-> SliceAssign(P.mask[k], counted, tile_N,
                     Ravel2(LevelMask(ecco_hFacC_tiles[tile_number][k]), TileRows, TileCols))]]

ConcatTile ==
    /\ notebook = "ic" /\ pc = "concat" /\ tile_pos <= Len(tile_list)
    /\ SetPointArrays(ConcatStep(PointArrays, points_counted, tile_list[tile_pos]))
    /\ points_counted' = points_counted + TileSize(tile_list[tile_pos])
    /\ tile_pos' = tile_pos + 1
    /\ pc' = IF tile_pos = Len(tile_list) THEN "filter" ELSE "concat"
    /\ UNCHANGED <<inVars, exfVars, outVars, mask, total_points, local_indices, grid,
                   init_grids, CA_init_grids, var_pos>>

\* the points that are not east of longitude 0
LocalIndicesNotPositive(xs) == [p \in DOMAIN xs |-> xs[p] <= 0]

\* local_indices = ecco_XC_points<0
LocalIndices(xs) == [p \in DOMAIN xs |-> xs[p] < 0]

\* remove the points with positive longitude: every array is indexed with
\* local_indices
FilterPoints(P, li, total) ==
    [mask |-> BoolIndexCols(P.mask, li, total, NLev),
     hFacC |-> BoolIndexCols(P.hFacC, li, total, NLev),
     hFacW |-> BoolIndexCols(P.hFacW, li, total, NLev),
     hFacS |-> BoolIndexCols(P.hFacS, li, total, NLev),
     YC |-> BoolIndex(P.YC, li, total),
     XC |-> BoolIndex(P.XC, li, total)]

RemovePositiveLongitude ==
    /\ notebook = "ic" /\ pc = "filter"
    /\ local_indices' = LocalIndices(ecco_XC_points)
    /\ SetPointArrays(FilterPoints(PointArrays, local_indices', total_points))
    /\ var_pos' = 1
    /\ pc' = "read"
    /\ UNCHANGED <<inVars, exfVars, outVars, mask, total_points, loopVars, grid, init_grids,
                   CA_init_grids>>

\* ---------------------------------------- initial conditions: the fields
\* v / f for an open fraction f stored as fac = f * HFacDen
DivByFrac(v, fac) == (v * HFacDen) \div fac

\* the correction applied a second time to its own result
CorrectTwice(init_grid, hFac_points) ==
    LET Once(g) == [k \in DOMAIN g |-> [p \in DOMAIN g[k] |->
                       IF hFac_points[k][p] # 0 THEN DivByFrac(g[k][p], hFac_points[k][p])
                       ELSE g[k][p]]]
    IN Once(Once(init_grid))

\* init_grid[k,non_zero_indices] = init_grid[k,non_zero_indices]/hFac_points[k,non_zero_indices]
Correct(init_grid, hFac_points) ==
    [k \in DOMAIN init_grid |-> [p \in DOMAIN init_grid[k] |->
        IF hFac_points[k][p] # 0 THEN DivByFrac(init_grid[k][p], hFac_points[k][p])
        ELSE init_grid[k][p]]]

\* the values of one tile with the velocity components of every tile taken
\* as they are
TileValuesUnrotated(variable_name, cur_grid, u_grid, v_grid, k, tile_number) ==
    LET R(A) == Ravel2(A, Cardinality(DOMAIN A), Cardinality(DOMAIN A[0]))
    IN CASE variable_name = "ETAN" -> R(cur_grid[tile_number - 1])
         [] variable_name = "UVEL" -> R(u_grid[k][tile_number - 1])
         [] variable_name = "VVEL" -> R(v_grid[k][tile_number - 1])
         [] OTHER -> R(cur_grid[k][tile_number - 1])

\* the values of one tile that go to level k of init_grid, raveled: the
\* velocity components are swapped, and one negated, on the tiles from 7 on
TileValues(variable_name, cur_grid, u_grid, v_grid, k, tile_number) ==
    LET R(A) == Ravel2(A, Cardinality(DOMAIN A), Cardinality(DOMAIN A[0]))
        Neg(a) == [q \in DOMAIN a |-> (-1) * a[q]]
    IN CASE variable_name = "ETAN" -> R(cur_grid[tile_number - 1])
         [] variable_name = "UVEL" ->
                IF tile_number < 7 THEN R(u_grid[k][tile_number - 1])
                ELSE R(v_grid[k][tile_number - 1])
         [] variable_name = "VVEL" ->
                IF tile_number < 7 THEN R(v_grid[k][tile_number - 1])
                ELSE Neg(R(u_grid[k][tile_number - 1]))
         [] OTHER -> R(cur_grid[k][tile_number - 1])

\* the loop with points_counted left at 0: every tile is written to the
\* first block
RECURSIVE FillTilesNoAdvance(_, _, _, _, _, _, _, _)
FillTilesNoAdvance(init_grid, variable_name, cur_grid, u_grid, v_grid, N, tl, n) ==
    IF n = 0 THEN init_grid
    ELSE LET before == FillTilesNoAdvance(init_grid, variable_name, cur_grid, u_grid, v_grid,
                                          N, tl, n - 1)
         IN [k \in DOMAIN before |->
                SliceAssign(before[k], 0, N,
                            TileValues(variable_name, cur_grid, u_grid, v_grid, k, tl[n]))]

\* the loop over the tile list tl that fills init_grid, N columns a tile
RECURSIVE FillTiles(_, _, _, _, _, _, _, _)
FillTiles(init_grid, variable_name, cur_grid, u_grid, v_grid, N, tl, n) ==
    IF n = 0 THEN init_grid
    ELSE LET before == FillTiles(init_grid, variable_name, cur_grid, u_grid, v_grid, N, tl, n - 1)
         IN [k \in DOMAIN before |->
                SliceAssign(before[k], (n - 1) * N, N,
                            TileValues(variable_name, cur_grid, u_grid, v_grid, k, tl[n]))]

\* the array the name grid is bound to
GridArray(name) == IF name = "ETAN" THEN NcSurface("ETAN") ELSE NcField(name)

\* N = np.shape(grid)[-1]*np.shape(grid)[-2]
PointsPerTile(cur_name) ==
    LET tile == IF cur_name = "ETAN" THEN GridArray(cur_name)[0] ELSE GridArray(cur_name)[0][0]
    IN Cardinality(DOMAIN tile[0]) * Cardinality(DOMAIN tile)

\* the columns of init_grid taken for the boolean index of any length
ShapeUnchecked(cur_name, tl, total) == cur_name # "module"

\* np.shape(grid) has a last axis, and init_grid[:,local_indices] has as
\* many columns as local_indices has entries; numpy raises an IndexError
\* otherwise
ShapeOK(cur_name, tl, total) ==
    cur_name # "module" /\ PointsPerTile(cur_name) * Len(tl) = total

\* the body of the loop that reads the fields, after the read branch has
\* bound grid to the array of cur_name: fill, remove the points with
\* positive longitude, correct
PreparedGrid(variable_name, cur_name, tl, li, total, hFacW_points, hFacS_points) ==
    LET cur_grid == GridArray(cur_name)
        u_grid == NcField("UVELMASS")
        v_grid == NcField("VVELMASS")
        N == PointsPerTile(cur_name)
        nl == IF variable_name = "ETAN" THEN 1 ELSE NLev
        filled == FillTiles(Zeros2(nl, N * Len(tl)), variable_name, cur_grid, u_grid, v_grid,
                            N, tl, Len(tl))
        local == BoolIndexCols(filled, li, total, nl)
    IN CASE variable_name = "UVEL" -> Correct(local, hFacW_points)
         [] variable_name = "VVEL" -> Correct(local, hFacS_points)
         [] OTHER -> local

\* the read branch: a velocity leaves grid as it was
GridAfterRead(variable_name, cur_name) ==
    IF variable_name \in {"UVEL", "VVEL"} THEN cur_name ELSE variable_name

\* one iteration of the loop that reads the fields; an exception ends the
\* run before init_grid is appended
ReadVariable ==
    /\ notebook = "ic" /\ pc = "read" /\ var_pos <= Len(variable_names)
    /\ grid' = GridAfterRead(variable_names[var_pos], grid)
    /\ IF ShapeOK(grid', tile_list, total_points)
       THEN /\ init_grids' = Append(IF var_pos = 1 THEN <<>> ELSE init_grids,
                                    PreparedGrid(variable_names[var_pos], grid', tile_list,
                                                 local_indices, total_points, ecco_hFacW_points,
                                                 ecco_hFacS_points))
            /\ var_pos' = IF var_pos = Len(variable_names) THEN 1 ELSE var_pos + 1
            /\ pc' = IF var_pos = Len(variable_names) THEN "interp" ELSE "read"
       ELSE /\ pc' = "error"
            /\ UNCHANGED <<init_grids, var_pos>>
    /\ UNCHANGED <<inVars, exfVars, outVars, mask, pointVars, loopVars, CA_init_grids>>

\* ------------------------------------------------ horizontal interpolation
\* eccoseas.downscale.horizontal is not part of the notebooks; the functions
\* below follow the contract the specification gives for it (4.1): level by
\* level, over the valid source points only, an inverse-distance average of
\* the valid points within a radius, the nearest valid point where there is
\* none, and 0 where the target mask is 0 or no source point is valid.
Radius2 == 1

Dist2(pt, x, y) == (pt[1] - x) * (pt[1] - x) + (pt[2] - y) * (pt[2] - y)

\* the valid source points of a level
ValidPoints(mask_k) == {p \in DOMAIN mask_k : mask_k[p] # 0}

RECURSIVE SumOver(_, _, _)
SumOver(S, f, n) ==
    IF n = 0 THEN 0
    ELSE SumOver(S, f, n - 1) + (IF (n - 1) \in S THEN f[n - 1] ELSE 0)

\* the order in which two samples are the nearer one to (x, y): by distance,
\* then by coordinates and value, never by position in the arrays
Nearer(points, values_k, p, q, x, y) ==
    LET kp == <<Dist2(points[p], x, y), points[p][1], points[p][2], values_k[p]>>
        kq == <<Dist2(points[q], x, y), points[q][1], points[q][2], values_k[q]>>
    IN \/ kp[1] < kq[1]
       \/ kp[1] = kq[1] /\ kp[2] < kq[2]
       \/ kp[1] = kq[1] /\ kp[2] = kq[2] /\ kp[3] < kq[3]
       \/ kp[1] = kq[1] /\ kp[2] = kq[2] /\ kp[3] = kq[3] /\ kp[4] <= kq[4]

\* the value of the valid point that is first in the arrays
FirstValue(points, values_k, valid, x, y) ==
    values_k[CHOOSE p \in valid : \A q \in valid : p <= q]

NearestValue(points, values_k, valid, x, y) ==
    values_k[CHOOSE p \in valid : \A q \in valid : Nearer(points, values_k, p, q, x, y)]

\* the weighted sum of the points in range, not divided by the weights
InterpolateCellSum(points, values_k, valid, x, y) ==
    LET near == {p \in valid : Dist2(points[p], x, y) <= Radius2}
        n == Cardinality(DOMAIN points)
        wv == [p \in DOMAIN points |-> (Radius2 + 1 - Dist2(points[p], x, y)) * values_k[p]]
    IN IF near # {} THEN SumOver(near, wv, n)
       ELSE NearestValue(points, values_k, valid, x, y)

\* the average of the points in range carried on past the nearest value
InterpolateCellOvershoot(points, values_k, valid, x, y) ==
    LET near == {p \in valid : Dist2(points[p], x, y) <= Radius2}
        n == Cardinality(DOMAIN points)
        w == [p \in DOMAIN points |-> Radius2 + 1 - Dist2(points[p], x, y)]
        wv == [p \in DOMAIN points |-> w[p] * values_k[p]]
    IN IF near # {}
       THEN 2 * (SumOver(near, wv, n) \div SumOver(near, w, n))
                - NearestValue(points, values_k, valid, x, y)
       ELSE NearestValue(points, values_k, valid, x, y)

\* the value of one target cell that is valid, from a level with valid points
InterpolateCell(points, values_k, valid, x, y) ==
    LET near == {p \in valid : Dist2(points[p], x, y) <= Radius2}
        n == Cardinality(DOMAIN points)
        w == [p \in DOMAIN points |-> Radius2 + 1 - Dist2(points[p], x, y)]
        wv == [p \in DOMAIN points |-> w[p] * values_k[p]]
    IN IF near # {} THEN SumOver(near, wv, n) \div SumOver(near, w, n)
       ELSE NearestValue(points, values_k, valid, x, y)

\* one level that is interpolated although it has no valid point: the
\* values of all the points are used then
downscale_level_unmasked(points, values_k, mask_k, XCt, YCt, mask_subset_k) ==
    LET valid == IF ValidPoints(mask_k) = {} THEN DOMAIN mask_k ELSE ValidPoints(mask_k)
    IN [i \in DOMAIN mask_subset_k |-> [j \in DOMAIN mask_subset_k[i] |->
           IF mask_subset_k[i][j] = 0 THEN 0
           ELSE InterpolateCell(points, values_k, valid, XCt[i][j], YCt[i][j])]]

\* one level: interpolate, fall back, zero the cells outside the target mask
downscale_level(points, values_k, mask_k, XCt, YCt, mask_subset_k) ==
    LET valid == ValidPoints(mask_k)
    IN [i \in DOMAIN mask_subset_k |-> [j \in DOMAIN mask_subset_k[i] |->
           IF mask_subset_k[i][j] = 0 \/ valid = {} THEN 0
           ELSE InterpolateCell(points, values_k, valid, XCt[i][j], YCt[i][j])]]

downscale_3D_points(points, values, srcmask, XCt, YCt, mask_subset) ==
    [k \in DOMAIN mask_subset |->
        downscale_level(points, values[k], srcmask[k], XCt, YCt, mask_subset[k])]

downscale_2D_points_with_zeros(points, values, srcmask, XCt, YCt, mask_subset) ==
    downscale_level(points, values, srcmask, XCt, YCt, mask_subset)

\* ------------------------------------------------------- the binary files
Abs(v) == IF v < 0 THEN 0 - v ELSE v

RECURSIVE FloorLog2(_)
FloorLog2(a) == IF a < 2 THEN 0 ELSE 1 + FloorLog2(a \div 2)

\* astype('>f4') of an integer: the nearest number with a significand of 24
\* bits, ties to the even significand
F4Round(v) ==
    LET a == Abs(v)
        e == FloorLog2(a)
        ulp == IF e > 23 THEN 2 ^ (e - 23) ELSE 1
        q == a \div ulp
        r == a % ulp
        up == IF 2 * r > ulp \/ (2 * r = ulp /\ q % 2 = 1) THEN 1 ELSE 0
        m == (q + up) * ulp
    IN IF v < 0 THEN 0 - m ELSE m

IsF4(v) == F4Round(v) = v

\* the four bytes of a float32, most significant first: sign, the exponent
\* biased by 127, and the 23 bits of the significand below the leading one
F4Bytes(v) ==
    LET a == Abs(v)
        e == FloorLog2(a)
        sign == IF v < 0 THEN 1 ELSE 0
        expo == IF a = 0 THEN 0 ELSE e + 127
        mant == IF a = 0 THEN 0
                ELSE IF e > 23 THEN (a \div (2 ^ (e - 23))) - 2 ^ 23
                ELSE (a - 2 ^ e) * (2 ^ (23 - e))
    IN <<sign * 128 + expo \div 2,
         (expo % 2) * 128 + mant \div 65536,
         (mant \div 256) % 256,
         mant % 256>>

\* the float32 that four bytes, most significant first, stand for
F4Value(b0, b1, b2, b3) ==
    LET sign == b0 \div 128
        expo == (b0 % 128) * 2 + b1 \div 128
        mant == (b1 % 128) * 65536 + b2 * 256 + b3
        sig == 2 ^ 23 + mant
        a == IF expo = 0 THEN 0
             ELSE IF expo >= 150 THEN sig * (2 ^ (expo - 150))
             ELSE sig \div (2 ^ (150 - expo))
    IN IF sign = 1 THEN 0 - a ELSE a

\* the same array raveled with the first index varying fastest
Ravel3F(A, nz, rows, cols) ==
    [n \in Range0(nz * rows * cols) |-> A[n % nz][(n \div nz) % rows][n \div (nz * rows)]]

\* A.ravel('C') of a 3-D array of shape (nz, rows, cols)
Ravel3(A, nz, rows, cols) ==
    [n \in Range0(nz * rows * cols) |-> A[n \div (rows * cols)][(n \div cols) % rows][n % cols]]

\* flat.astype('>f4').tofile(...): the bytes of the file, no header
ToFile(flat) ==
    [b \in Range0(4 * Cardinality(DOMAIN flat)) |-> F4Bytes(F4Round(flat[b \div 4]))[(b % 4) + 1]]

\* the file read with the two middle bytes of every value exchanged
FromFileMiddleSwapped(bytes) ==
    [n \in Range0(Cardinality(DOMAIN bytes) \div 4) |->
        F4Value(bytes[4 * n], bytes[4 * n + 2], bytes[4 * n + 1], bytes[4 * n + 3])]

\* np.fromfile(..., '>f4')
FromFile(bytes) ==
    [n \in Range0(Cardinality(DOMAIN bytes) \div 4) |->
        F4Value(bytes[4 * n], bytes[4 * n + 1], bytes[4 * n + 2], bytes[4 * n + 3])]

\* flat.reshape((nz, rows, cols)) and flat.reshape((rows, cols))
Reshape3(flat, nz, rows, cols) ==
    [k \in Range0(nz) |-> [i \in Range0(rows) |-> [j \in Range0(cols) |->
        flat[(k * rows + i) * cols + j]]]]
Reshape2(flat, rows, cols) ==
    [i \in Range0(rows) |-> [j \in Range0(cols) |-> flat[i * cols + j]]]

\* the files of input_dir after the file at path is written
WriteFile(fs, path, bytes) ==
    [f \in DOMAIN fs \cup {path} |-> IF f = path THEN bytes ELSE fs[f]]

\* ------------------------------- initial conditions: interpolate and write
\* np.column_stack([ecco_XC_points, ecco_YC_points])
ColumnStack(xs, ys) == [p \in DOMAIN xs |-> <<xs[p], ys[p]>>]

\* one file name for every variable
ICFileShared(variable_name) == "IC.bin"

\* output_file = os.path.join(input_dir, variable_name+'_IC.bin')
ICFile(variable_name) == variable_name \o "_IC.bin"

\* the deepest level of the mask for ETAN in place of the top one
ModelMaskDeepest(variable_name, m) ==
    IF variable_name = "ETAN" THEN [k \in {0} |-> m[Cardinality(DOMAIN m) - 1]] ELSE m

\* mask[:1,:,:] for ETAN, mask for the others
ModelMask(variable_name, m) == IF variable_name = "ETAN" THEN [k \in {0} |-> m[k]] ELSE m

\* the interpolated grid of one variable
InterpolatedIC(variable_name, init_grid, xs, ys, mask_points, m) ==
    downscale_3D_points(ColumnStack(xs, ys), init_grid, mask_points, XC, YC,
                        ModelMask(variable_name, m))

\* one iteration of the loop over zip(variable_names, init_grids)
InterpolateAndWrite ==
    /\ notebook = "ic" /\ pc = "interp" /\ var_pos <= Len(variable_names)
    /\ var_pos <= Len(init_grids)
    /\ interpolated_grid' = InterpolatedIC(variable_names[var_pos], init_grids[var_pos],
                                           ecco_XC_points, ecco_YC_points, ecco_mask_points, mask)
    /\ output_file' = ICFile(variable_names[var_pos])
    /\ files' = WriteFile(files, output_file',
                          ToFile(Ravel3(interpolated_grid', Cardinality(DOMAIN interpolated_grid'),
                                        n_rows, n_cols)))
    /\ var_pos' = IF var_pos = Len(variable_names) THEN 1 ELSE var_pos + 1
    /\ pc' = IF var_pos = Len(variable_names) THEN "plot" ELSE "interp"
    /\ UNCHANGED <<inVars, exfVars, icVars>>

\* one iteration of the plotting loop: the file is read back and reshaped
\* (the choice of the level to draw is left out)
ReadBack ==
    /\ notebook = "ic" /\ pc = "plot" /\ var_pos <= Len(variable_names)
    /\ LET variable_name == variable_names[var_pos]
           flat == FromFile(files[ICFile(variable_name)])
           CA_init_grid ==
               IF variable_name = "ETAN" THEN Reshape2(flat, n_rows, n_cols)
               ELSE Reshape3(flat, Nr, n_rows, n_cols)
       IN /\ Cardinality(DOMAIN flat) = (IF variable_name = "ETAN" THEN 1 ELSE Nr) * n_rows * n_cols
          /\ CA_init_grids' = Append(IF var_pos = 1 THEN <<>> ELSE CA_init_grids, CA_init_grid)
    /\ var_pos' = var_pos + 1
    /\ pc' = IF var_pos = Len(variable_names) THEN "done" ELSE "plot"
    /\ UNCHANGED <<inVars, exfVars, outVars, mask, pointVars, loopVars, grid, init_grids>>

\* ------------------------------------------------ external forcing: inputs
\* the forcing files of a leap year hold NT timesteps, those of another year
\* fewer, on a grid of ExfRows latitudes and ExfCols longitudes
NT == 2
SourceSteps == {NT - 1, NT}
ExfRows == 2
ExfCols == 2
year == 2008

exf_file_prefix_dict ==
    [ATEMP |-> "EIG_tmp2m_degC_plus_ECCO_v4r1_ctrl", AQH |-> "EIG_spfh2m_plus_ECCO_v4r1_ctrl",
     SWDOWN |-> "EIG_dsw_plus_ECCO_v4r1_ctrl", LWDOWN |-> "EIG_dlw_plus_ECCO_v4r1_ctrl",
     UWIND |-> "EIG_u10m", VWIND |-> "EIG_v10m", PRECIP |-> "EIG_rain_plus_ECCO_v4r1_ctrl"]
exf_variable_names == <<"ATEMP", "AQH", "SWDOWN", "LWDOWN", "UWIND", "VWIND", "PRECIP">>

ExfOrdinal(name) == CHOOSE o \in 1..Len(exf_variable_names) : exf_variable_names[o] = name

\* exf.read_ecco_exf_file(data_folder, prefix, year): longitudes, latitudes
\* and the (time, lat, lon) values of one variable
read_ecco_exf_file(name) ==
    [exf_lon |-> [b \in Range0(ExfCols) |-> 4 * b - 5 + in_geo],
     exf_lat |-> [a \in Range0(ExfRows) |-> 3 * a - 2],
     exf_grid |-> [t \in Range0(in_nt) |-> [a \in Range0(ExfRows) |-> [b \in Range0(ExfCols) |->
         ValTable[1 + ((in_seed + 3 * ExfOrdinal(name) + 5 * t + 2 * a + b) % Len(ValTable))]]]]]

\* hFac.create_surface_hFacC_grid(bathy, delR=1)
create_surface_hFacC_grid == hFacC[0]

\* ------------------------------------------------ external forcing: steps
\* one iteration of the loop that reads the forcing fields
ReadExf ==
    /\ notebook = "exf" /\ pc = "exf_read" /\ var_pos <= Len(exf_variable_names)
    /\ LET read == read_ecco_exf_file(exf_variable_names[var_pos])
       IN /\ exf_lon' = read.exf_lon
          /\ exf_lat' = read.exf_lat
          /\ exf_grids' = Append(IF var_pos = 1 THEN <<>> ELSE exf_grids, read.exf_grid)
    /\ var_pos' = IF var_pos = Len(exf_variable_names) THEN 1 ELSE var_pos + 1
    /\ pc' = IF var_pos = Len(exf_variable_names) THEN "exf_points" ELSE "exf_read"
    /\ UNCHANGED <<inVars, icVars, plotVars, outVars, ecco_points, ecco_mask, surface_mask, timestep>>

\* Exf_Lon, Exf_Lat = np.meshgrid(exf_lon, exf_lat); the points are the two
\* grids raveled, and the source mask is 1 everywhere
MakeExfPoints ==
    /\ notebook = "exf" /\ pc = "exf_points"
    /\ LET Exf_Lon == [a \in Range0(ExfRows) |-> [b \in Range0(ExfCols) |-> exf_lon[b]]]
           Exf_Lat == [a \in Range0(ExfRows) |-> [b \in Range0(ExfCols) |-> exf_lat[a]]]
       IN /\ ecco_points' = ColumnStack(Ravel2(Exf_Lon, ExfRows, ExfCols),
                                        Ravel2(Exf_Lat, ExfRows, ExfCols))
          /\ ecco_mask' = [p \in Range0(ExfRows * ExfCols) |-> 1]
    /\ pc' = "exf_mask"
    /\ UNCHANGED <<inVars, icVars, plotVars, outVars, var_pos, exf_lon, exf_lat, exf_grids, surface_mask,
                   timestep>>

\* surface_mask = hFac.create_surface_hFacC_grid(bathy, delR=1)
MakeSurfaceMask ==
    /\ notebook = "exf" /\ pc = "exf_mask"
    /\ surface_mask' = create_surface_hFacC_grid
    /\ pc' = "exf_alloc"
    /\ UNCHANGED <<inVars, icVars, plotVars, outVars, var_pos, exf_lon, exf_lat, exf_grids, ecco_points,
                   ecco_mask, timestep>>

\* interpolated_grid = np.zeros((np.shape(exf_grid)[0], rows, cols))
AllocGrid ==
    /\ notebook = "exf" /\ pc = "exf_alloc" /\ var_pos <= Len(exf_variable_names)
    /\ interpolated_grid' =
           [t \in DOMAIN exf_grids[var_pos] |-> [i \in Range0(n_rows) |-> [j \in Range0(n_cols) |-> 0]]]
    /\ timestep' = 0
    /\ pc' = "exf_interp"
    /\ UNCHANGED <<inVars, icVars, plotVars, output_file, files, var_pos, exf_lon, exf_lat, exf_grids,
                   ecco_points, ecco_mask, surface_mask>>

\* the values of the first timestep, whatever the timestep
FirstTimestepValues(exf_grid, t) == Ravel2(exf_grid[0], ExfRows, ExfCols)

\* ecco_values = exf_grid[timestep, :, :].ravel()
TimestepValues(exf_grid, t) == Ravel2(exf_grid[t], ExfRows, ExfCols)

\* one iteration of the loop over the timesteps
InterpTimestep ==
    /\ notebook = "exf" /\ pc = "exf_interp"
    /\ timestep < Cardinality(DOMAIN exf_grids[var_pos])
    /\ LET ecco_values == TimestepValues(exf_grids[var_pos], timestep)
           interp_timestep == downscale_2D_points_with_zeros(ecco_points, ecco_values, ecco_mask,
                                                             XC, YC, surface_mask)
       IN interpolated_grid' = [interpolated_grid EXCEPT ![timestep] = interp_timestep]
    /\ timestep' = timestep + 1
    /\ pc' = IF timestep + 1 = Cardinality(DOMAIN exf_grids[var_pos]) THEN "exf_write"
             ELSE "exf_interp"
    /\ UNCHANGED <<inVars, icVars, plotVars, output_file, files, var_pos, exf_lon, exf_lat, exf_grids,
                   ecco_points, ecco_mask, surface_mask>>

\* 273.15, in hundredths
KelvinOffset == 27315

\* the conversion of ATEMP applied to the grid of every variable
ConvertEvery(variable_name, g) ==
    LET plus == [t \in DOMAIN g |-> [i \in DOMAIN g[t] |-> [j \in DOMAIN g[t][i] |->
                    g[t][i][j] + KelvinOffset]]]
    IN IF variable_name \in {"SWDOWN", "LWDOWN"}
       THEN [t \in DOMAIN plus |-> [i \in DOMAIN plus[t] |-> [j \in DOMAIN plus[t][i] |->
                plus[t][i][j] * (-1)]]]
       ELSE plus

\* convert ECCO values to MITgcm defaults
Convert(variable_name, g) ==
    LET plus == IF variable_name = "ATEMP"
                THEN [t \in DOMAIN g |-> [i \in DOMAIN g[t] |-> [j \in DOMAIN g[t][i] |->
                          g[t][i][j] + KelvinOffset]]]
                ELSE g
    IN IF variable_name \in {"SWDOWN", "LWDOWN"}
       THEN [t \in DOMAIN plus |-> [i \in DOMAIN plus[t] |-> [j \in DOMAIN plus[t][i] |->
                plus[t][i][j] * (-1)]]]
       ELSE plus

\* output_file = os.path.join(input_dir,'exf',variable_name+'_'+str(year))
ExfFile(variable_name) == "exf/" \o variable_name \o "_" \o ToString(year)

\* the end of one variable's iteration: convert and write
ConvertAndWrite ==
    /\ notebook = "exf" /\ pc = "exf_write"
    /\ LET variable_name == exf_variable_names[var_pos]
           nt == Cardinality(DOMAIN interpolated_grid)
       IN /\ interpolated_grid' = Convert(variable_name, interpolated_grid)
          /\ output_file' = ExfFile(variable_name)
          /\ files' = WriteFile(files, output_file',
                                ToFile(Ravel3(interpolated_grid', nt, n_rows, n_cols)))
    /\ var_pos' = var_pos + 1
    /\ pc' = IF var_pos = Len(exf_variable_names) THEN "exf_plot" ELSE "exf_alloc"
    /\ UNCHANGED <<inVars, icVars, plotVars, exf_lon, exf_lat, exf_grids, ecco_points, ecco_mask,
                   surface_mask, timestep>>

\* ------------------------------------- external forcing: read back and plot
\* 366*4: the timesteps the plotting cell takes a file to hold, those of a
\* leap year
ReadBackSteps == NT

\* flat.reshape((-1, rows, cols)) succeeds: the file holds whole timesteps,
\* however many
ReshapeUnchecked(flat, nz, rows, cols) == Cardinality(DOMAIN flat) % (rows * cols) = 0

\* flat.reshape((nz, rows, cols)) succeeds: numpy raises a ValueError when
\* the sizes differ
ReshapeOK(flat, nz, rows, cols) == Cardinality(DOMAIN flat) = nz * rows * cols

\* one iteration of the plotting loop: the file of the variable is read
\* back, reshaped, and its first timestep is chosen; an exception ends the
\* cell
ReadBackExf ==
    /\ notebook = "exf" /\ pc = "exf_plot" /\ plot_i < Len(exf_variable_names)
    /\ LET variable_name == exf_variable_names[plot_i + 1]
           flat == FromFile(files[ExfFile(variable_name)])
       IN IF ReshapeOK(flat, ReadBackSteps, n_rows, n_cols)
          THEN /\ CA_exf_grid' = Reshape3(flat, ReadBackSteps, n_rows, n_cols)[0]
               /\ plot_i' = plot_i + 1
               /\ pc' = IF plot_i + 1 = Len(exf_variable_names) THEN "exf_zero_u" ELSE "exf_plot"
          ELSE /\ pc' = "exf_zero_u"
               /\ UNCHANGED plotVars
    /\ UNCHANGED <<inVars, icVars, outVars, var_pos, exf_lon, exf_lat, exf_grids, ecco_points,
                   ecco_mask, surface_mask, timestep>>

\* -------------------------------------------- external forcing: zero wind
\* the zero wind file is written next to the wind file, under another name
ZeroWindFileSame(variable_name) == "exf/" \o variable_name \o "_" \o ToString(year)

\* os.path.join(input_dir,'exf','UWIND_zero_'+str(year))
ZeroWindFile(variable_name) == "exf/" \o variable_name \o "_zero_" \o ToString(year)

\* u_grid*=0 on the float32 values of a file, written back as '>f4': the
\* product of a finite float32 and 0 is a zero with the sign of the value,
\* so the first of its four bytes keeps the sign bit and the others are 0
TimesZero(bytes) ==
    [b \in DOMAIN bytes |-> IF b % 4 = 0 THEN (bytes[b] \div 128) * 128 ELSE 0]

\* one half of the cell: read the wind file, multiply by 0, write the zero
\* wind file
ZeroWind(variable_name, next) ==
    /\ ExfFile(variable_name) \in DOMAIN files
    /\ files' = WriteFile(files, ZeroWindFile(variable_name), TimesZero(files[ExfFile(variable_name)]))
    /\ pc' = next
    /\ UNCHANGED <<inVars, icVars, exfVars, var_pos, interpolated_grid, output_file>>

\* make a zero zonal wind file
ZeroUWind == notebook = "exf" /\ pc = "exf_zero_u" /\ ZeroWind("UWIND", "exf_zero_v")

\* make a zero meridional wind file
ZeroVWind == notebook = "exf" /\ pc = "exf_zero_v" /\ ZeroWind("VWIND", "done")

\* ------------------------------------------------------- the specification
vars == <<inVars, pc, icVars, var_pos, outVars, exfVars>>

Init ==
    /\ notebook \in {"ic", "exf"}
    /\ in_geo \in Range0(NGeo)
    /\ in_seed \in Range0(NSeeds)
    /\ in_tm \in TargetMaskKinds
    /\ in_hc \in IF notebook = "ic" THEN SrcMaskKinds ELSE {0}
    /\ in_fcols \in IF notebook = "ic" THEN FieldCols ELSE {TileCols}
    /\ in_nt \in IF notebook = "exf" THEN SourceSteps ELSE {NT}
    /\ tile_list \in IF notebook = "ic" THEN TileLists ELSE {<<8, 11>>}
    /\ pc = IF notebook = "ic" THEN "mask" ELSE "exf_read"
    /\ mask = Unset /\ total_points = 0 /\ points_counted = 0 /\ tile_pos = 0
    /\ ecco_XC_points = Unset /\ ecco_YC_points = Unset
    /\ ecco_hFacC_points = Unset /\ ecco_hFacW_points = Unset /\ ecco_hFacS_points = Unset
    /\ ecco_mask_points = Unset /\ local_indices = Unset
    /\ grid = "module"
    /\ init_grids = Unset /\ CA_init_grids = Unset
    /\ var_pos = 1
    /\ files = <<>> /\ output_file = "" /\ interpolated_grid = Unset
    /\ exf_lon = Unset /\ exf_lat = Unset /\ exf_grids = Unset /\ ecco_points = Unset
    /\ ecco_mask = Unset /\ surface_mask = Unset /\ timestep = 0
    /\ plot_i = 0 /\ CA_exf_grid = Unset

Next ==
    \/ MakeMask
    \/ AllocPoints
    \/ ConcatTile
    \/ RemovePositiveLongitude
    \/ ReadVariable
    \/ InterpolateAndWrite
    \/ ReadBack
    \/ ReadExf
    \/ MakeExfPoints
    \/ MakeSurfaceMask
    \/ AllocGrid
    \/ InterpTimestep
    \/ ConvertAndWrite
    \/ ReadBackExf
    \/ ZeroUWind
    \/ ZeroVWind

Spec == Init /\ [][Next]_vars

\* ------------------------------------------------------------- properties
\* the values a file holds, and the target mask its value n was interpolated
\* against: level n \div (rows * cols) of mask for the initial conditions,
\* surface_mask at every timestep for the forcing
FileValues(f) == FromFile(files[f])
TargetMaskAt(n) ==
    IF notebook = "ic" THEN mask[n \div (n_rows * n_cols)][(n \div n_cols) % n_rows][n % n_cols]
    ELSE surface_mask[(n \div n_cols) % n_rows][n % n_cols]

\* C1: in every file written, the value of every target cell whose target
\* mask is 0 is 0, at every level, every timestep and for every variable.
C1_MaskedCellsZero ==
    \A f \in DOMAIN files : \A n \in DOMAIN FileValues(f) :
        TargetMaskAt(n) = 0 => FileValues(f)[n] = 0

\* the source point that column p of the filtered arrays holds: its index
\* before the points with positive longitude were removed, its tile and its
\* cell in the tile
OriginIndex(p) == NthTrue(local_indices, total_points, p)
OriginTile(p) == tile_list[(OriginIndex(p) \div TilePts) + 1]
OriginRow(p) == (OriginIndex(p) % TilePts) \div TileCols
OriginCol(p) == OriginIndex(p) % TileCols

\* the raw transport value of a velocity variable at level k of the cell
\* (i, j) of tile t, and at level k of the point of column p
RawTransportAt(variable_name, k, t, i, j) ==
    LET u == NcValue("UVELMASS", k, t - 1, i, j)
        v == NcValue("VVELMASS", k, t - 1, i, j)
    IN IF variable_name = "UVEL" THEN (IF t < 7 THEN u ELSE v)
       ELSE (IF t < 7 THEN v ELSE 0 - u)
RawTransport(variable_name, k, p) ==
    LET o == OriginIndex(p)
    IN RawTransportAt(variable_name, k, tile_list[(o \div TilePts) + 1],
                      (o % TilePts) \div TileCols, o % TileCols)

\* the cell fraction a velocity variable is normalized by
VelocityFactor(variable_name, k, p) ==
    IF variable_name = "UVEL" THEN ecco_hFacW_points[k][p] ELSE ecco_hFacS_points[k][p]

VelocityGrids == {n \in 1..Len(init_grids) : variable_names[n] \in {"UVEL", "VVEL"}}

\* C2: for every level k and source point p of UVEL and VVEL, the value
\* prepared for interpolation is the raw transport value v divided by the
\* cell fraction f, once (value * f = v), where f is not zero, and v itself
\* where f is zero.
C2_VelocityNormalized ==
    \A n \in VelocityGrids : \A k \in Levels : \A p \in DOMAIN init_grids[n][k] :
        LET fac == VelocityFactor(variable_names[n], k, p)
            v == RawTransport(variable_names[n], k, p)
        IN IF fac # 0 THEN init_grids[n][k][p] * fac = v * HFacDen
           ELSE init_grids[n][k][p] = v

\* a velocity grid is ready for interpolation with a value that was divided
\* by a fraction below 1 and a value that passed through at fraction 0
C2_Witness ==
    /\ pc = "interp"
    /\ \E n \in VelocityGrids : \E k \in Levels : \E p, q \in DOMAIN init_grids[n][k] :
        /\ VelocityFactor(variable_names[n], k, p) = 1
        /\ RawTransport(variable_names[n], k, p) # 0
        /\ init_grids[n][k][p] = 2 * RawTransport(variable_names[n], k, p)
        /\ VelocityFactor(variable_names[n], k, q) = 0
        /\ init_grids[n][k][q] # 0

\* the grid that was written to the file of the n-th variable of the
\* initial conditions
WrittenIC(n) ==
    InterpolatedIC(variable_names[n], init_grids[n], ecco_XC_points, ecco_YC_points,
                   ecco_mask_points, mask)

AllF4(A) == \A k \in DOMAIN A : \A i \in DOMAIN A[k] : \A j \in DOMAIN A[k][i] : IsF4(A[k][i][j])

\* the array read back equals the array written, element for element
SameAsWritten(n) ==
    IF variable_names[n] = "ETAN"
    THEN \A i \in Range0(n_rows) : \A j \in Range0(n_cols) :
             CA_init_grids[n][i][j] = WrittenIC(n)[0][i][j]
    ELSE \A k \in Range0(Nr) : \A i \in Range0(n_rows) : \A j \in Range0(n_cols) :
             CA_init_grids[n][k][i][j] = WrittenIC(n)[k][i][j]

\* C3: a grid whose values are all float32 numbers, written with
\* ravel('C').astype('>f4').tofile and read back with fromfile('>f4') and
\* reshape to (levels, rows, cols), or (rows, cols) for ETAN, is read back
\* exactly as it was written.
C3_RoundTrip ==
    \A n \in 1..Len(CA_init_grids) : AllF4(WrittenIC(n)) => SameAsWritten(n)

\* a multi-level grid of float32 numbers, with values above and below 0 and
\* different values at the first two levels, has been read back
C3_Witness ==
    \E n \in 1..Len(CA_init_grids) :
        /\ variable_names[n] # "ETAN"
        /\ AllF4(WrittenIC(n))
        /\ \E i \in Range0(n_rows), j \in Range0(n_cols) : CA_init_grids[n][0][i][j] < 0
        /\ \E i \in Range0(n_rows), j \in Range0(n_cols) : CA_init_grids[n][0][i][j] > 0
        /\ \E i \in Range0(n_rows), j \in Range0(n_cols) :
               CA_init_grids[n][0][i][j] # CA_init_grids[n][1][i][j]

\* the interpolation loop has just written output_file from interpolated_grid
JustWritten == output_file # "" /\ (notebook = "ic" \/ pc \in {"exf_alloc", "exf_plot"})

\* C4: the file holds nothing but the values, 4 bytes each, and the value
\* of (level or timestep k, row i, column j) is at position
\* (k * rows + i) * cols + j.
C4_FlatLayout ==
    JustWritten =>
        LET bytes == files[output_file]
            nz == Cardinality(DOMAIN interpolated_grid)
        IN /\ DOMAIN bytes = Range0(4 * nz * n_rows * n_cols)
           /\ \A k \in Range0(nz) : \A i \in Range0(n_rows) : \A j \in Range0(n_cols) :
                  \A b \in 0..3 :
                      bytes[4 * ((k * n_rows + i) * n_cols + j) + b] =
                          F4Bytes(F4Round(interpolated_grid[k][i][j]))[b + 1]

\* a file was written from a grid whose values differ along each of the
\* three axes
C4_Witness ==
    /\ JustWritten
    /\ Cardinality(DOMAIN interpolated_grid) > 1
    /\ interpolated_grid[0][0][0] # interpolated_grid[0][0][1]
    /\ interpolated_grid[0][0][0] # interpolated_grid[0][1][0]
    /\ interpolated_grid[0][0][0] # interpolated_grid[1][0][0]
    /\ interpolated_grid[0][0][1] # interpolated_grid[0][1][0]
    /\ interpolated_grid[0][0][1] # interpolated_grid[1][0][0]
    /\ interpolated_grid[0][1][0] # interpolated_grid[1][0][0]

\* ------------------------------------------- the calls of the interpolator
\* the variable whose file the initial-condition loop wrote last
LastIC == CHOOSE n \in 1..Len(variable_names) : ICFile(variable_names[n]) = output_file

\* the calls whose arguments and result the state still holds, level by
\* level: those of the last variable interpolated for the initial
\* conditions, those of the timesteps done of the current forcing variable
Calls ==
    IF notebook = "ic" /\ output_file # ""
    THEN {[points |-> ColumnStack(ecco_XC_points, ecco_YC_points),
           values |-> init_grids[LastIC][k],
           srcmask |-> ecco_mask_points[k],
           tmask |-> mask[k],
           out |-> interpolated_grid[k]] : k \in DOMAIN interpolated_grid}
    ELSE IF notebook = "exf" /\ pc \in {"exf_interp", "exf_write"}
    THEN {[points |-> ecco_points,
           values |-> Ravel2(exf_grids[var_pos][t], ExfRows, ExfCols),
           srcmask |-> ecco_mask,
           tmask |-> surface_mask,
           out |-> interpolated_grid[t]] : t \in Range0(timestep)}
    ELSE {}

Cells == Range0(n_rows) \X Range0(n_cols)
ValidOf(c) == {p \in DOMAIN c.srcmask : c.srcmask[p] # 0}
ValidCells(c) == {ij \in Cells : c.tmask[ij[1]][ij[2]] # 0}
CellDist2(c, p, ij) == Dist2(c.points[p], XC[ij[1]][ij[2]], YC[ij[1]][ij[2]])
InRange(c, ij) == {p \in ValidOf(c) : CellDist2(c, p, ij) <= Radius2}
NearestOf(c, ij) == {p \in ValidOf(c) : \A q \in ValidOf(c) : CellDist2(c, p, ij) <= CellDist2(c, q, ij)}

\* the values tried at the source points that are not valid
AltValues == {-7, 0, 99}

\* the result of a call with the value at source point p replaced by v
WithValue(c, p, v) ==
    downscale_level(c.points, [c.values EXCEPT ![p] = v], c.srcmask, XC, YC, c.tmask)

\* the result of a call with the value at every invalid source point
\* replaced by v
WithInvalid(c, v) ==
    downscale_level(c.points,
                    [p \in DOMAIN c.values |-> IF p \in ValidOf(c) THEN c.values[p] ELSE v],
                    c.srcmask, XC, YC, c.tmask)

\* the result of an interpolation does not depend on the values at the
\* source points that are invalid at its level
C5_SourceIndependence ==
    \A c \in Calls : \A v \in AltValues :
        /\ WithInvalid(c, v) = c.out
        /\ \A p \in DOMAIN c.values \ ValidOf(c) : WithValue(c, p, v) = c.out

\* C5: a file holds a value other than the fill value 0 only at target
\* cells that are valid in the target mask, and the result of every
\* interpolation is the same whatever the values at the invalid source
\* points are.
C5_ValidCellsOnly ==
    /\ \A f \in DOMAIN files : \A n \in DOMAIN FileValues(f) :
           FileValues(f)[n] # 0 => TargetMaskAt(n) # 0
    /\ C5_SourceIndependence

\* the values of the valid source points of a call
ValidValues(c) == {c.values[p] : p \in ValidOf(c)}

\* C6: at a level with a valid source point, a valid target cell with no
\* valid source point in range holds the value of a valid source point
\* nearest to it, and every valid target cell holds a value within the
\* range of the valid source values, never a gap.
C6_NearestFallback ==
    \A c \in Calls : ValidOf(c) # {} =>
        \A ij \in ValidCells(c) :
            /\ InRange(c, ij) = {} =>
                   \E p \in NearestOf(c, ij) : c.out[ij[1]][ij[2]] = c.values[p]
            /\ \E lo, hi \in ValidValues(c) :
                   lo <= c.out[ij[1]][ij[2]] /\ c.out[ij[1]][ij[2]] <= hi

\* a valid target cell out of range of every valid source point took the
\* value of its one nearest valid point, which is not 0 and is not the
\* value of every valid point
C6_Witness ==
    \E c \in Calls : \E ij \in ValidCells(c) :
        /\ InRange(c, ij) = {}
        /\ Cardinality(NearestOf(c, ij)) = 1
        /\ Cardinality(ValidValues(c)) > 1
        /\ c.out[ij[1]][ij[2]] # 0
        /\ \A p \in NearestOf(c, ij) : c.out[ij[1]][ij[2]] = c.values[p]

\* C7: a level whose source mask is 0 at every source point gives 0 at
\* every target cell, and the loop goes on: the file of the variable is
\* written with all its levels.
C7_EmptyLevelZero ==
    \A c \in Calls : ValidOf(c) = {} =>
        /\ \A ij \in Cells : c.out[ij[1]][ij[2]] = 0
        /\ notebook = "ic" =>
               /\ output_file \in DOMAIN files
               /\ DOMAIN files[output_file] =
                      Range0(4 * Cardinality(DOMAIN interpolated_grid) * n_rows * n_cols)
               /\ pc \in {"interp", "plot", "done"}

\* the notebook ran to its end over a source whose top level has no valid
\* point and whose next level has, with values other than 0 there, and the
\* last file holds both levels
C7_Witness ==
    /\ notebook = "ic" /\ pc = "done"
    /\ ValidPoints(ecco_mask_points[0]) = {}
    /\ ValidPoints(ecco_mask_points[1]) # {}
    /\ \E i \in Range0(n_rows), j \in Range0(n_cols) :
           mask[0][i][j] # 0 /\ interpolated_grid[0][i][j] = 0 /\ interpolated_grid[1][i][j] # 0
    /\ Cardinality(DOMAIN files) = Len(variable_names)

\* C8: a level with exactly one valid source point gives the value of that
\* point at every valid target cell.
C8_SinglePoint ==
    \A c \in Calls : Cardinality(ValidOf(c)) = 1 =>
        \A ij \in ValidCells(c) : \A p \in ValidOf(c) : c.out[ij[1]][ij[2]] = c.values[p]

\* a level with one valid source point, whose value is not 0 and is not the
\* value of every invalid point, was interpolated to several valid cells,
\* in range and out of range
C8_Witness ==
    \E c \in Calls :
        /\ Cardinality(ValidOf(c)) = 1
        /\ \A p \in ValidOf(c) : c.values[p] # 0
        /\ \E p \in ValidOf(c), q \in DOMAIN c.values : c.values[q] # c.values[p]
        /\ \E ij \in ValidCells(c) : InRange(c, ij) = {}
        /\ \E ij \in ValidCells(c) : InRange(c, ij) # {} 

\* ------------------------------------------- a whole run, for a tile list
\* the point arrays after the loop over the first n tiles of tl
RECURSIVE ConcatAll(_, _)
ConcatAll(tl, n) ==
    IF n = 0 THEN AllocatedPoints(SumTileSizes(tl, Len(tl)))
    ELSE ConcatStep(ConcatAll(tl, n - 1), SumTileSizes(tl, n - 1), tl[n])

\* the array grid is bound to in the n-th iteration of the read loop
RECURSIVE GridNameAt(_)
GridNameAt(n) ==
    IF n = 0 THEN "module" ELSE GridAfterRead(variable_names[n], GridNameAt(n - 1))

\* an array as the value it is, worked out once, the way a cell leaves it
\* in a variable: the comparison makes TLC enumerate what it would else
\* recompute at every subscript
Stored(a) == IF a = a THEN a ELSE a

\* the grid the notebook interpolates for its n-th variable when it is run
\* with the tile list tl
RunIC(tl, n) ==
    LET total == SumTileSizes(tl, Len(tl))
        all == Stored(ConcatAll(tl, Len(tl)))
        li == Stored(LocalIndices(all.XC))
        F == Stored(FilterPoints(all, li, total))
        init_grid == Stored(PreparedGrid(variable_names[n], GridNameAt(n), tl, li, total,
                                         F.hFacW, F.hFacS))
    IN InterpolatedIC(variable_names[n], init_grid, F.XC, F.YC, F.mask, MaskOf(hFacC))

ReverseSeq(tl) == [m \in 1..Len(tl) |-> tl[Len(tl) + 1 - m]]

\* permutations of 0..n-1: the exchanges of two neighbours, which generate
\* all of them, the reversal and the rotation by one
SourcePermutations(n) ==
    {[p \in Range0(n) |-> IF p = a THEN a + 1 ELSE IF p = a + 1 THEN a ELSE p] : a \in Range0(n - 1)}
    \cup {[p \in Range0(n) |-> n - 1 - p], [p \in Range0(n) |-> (p + 1) % n]}

\* the result of a call with the source points permuted
Permuted(c, perm) ==
    downscale_level([p \in DOMAIN c.points |-> c.points[perm[p]]],
                    [p \in DOMAIN c.values |-> c.values[perm[p]]],
                    [p \in DOMAIN c.srcmask |-> c.srcmask[perm[p]]], XC, YC, c.tmask)

\* C9: the result of an interpolation is the same when the source
\* coordinates, values and mask are permuted together, and the grid the
\* notebook interpolates is the same when the tile list is reversed.
C9_OrderInvariant ==
    /\ \A c \in Calls : \A perm \in SourcePermutations(Cardinality(DOMAIN c.points)) :
           Permuted(c, perm) = c.out
    /\ notebook = "ic" /\ output_file # "" =>
           interpolated_grid = RunIC(ReverseSeq(tile_list), LastIC)

\* a grid with values other than 0 was interpolated from the points of two
\* tiles, which the reversed tile list puts in another order
C9_Witness ==
    /\ notebook = "ic" /\ pc = "done"
    /\ ConcatAll(ReverseSeq(tile_list), Len(tile_list)).XC # ConcatAll(tile_list, Len(tile_list)).XC
    /\ \E k \in DOMAIN interpolated_grid : \E i \in Range0(n_rows), j \in Range0(n_cols) :
           interpolated_grid[k][i][j] # 0
    /\ \E c \in Calls : Cardinality(ValidValues(c)) > 1

\* the steps at which the filtered arrays are in use
Filtered == notebook = "ic" /\ pc \in {"read", "interp", "plot", "done"}

\* the value of the n-th variable that level k of column p must hold: that
\* of the source point the column stands for, the cell (i, j) of tile t
ValueAt(n, k, p, t, i, j) ==
    LET name == variable_names[n]
        raw == RawTransportAt(name, k, t, i, j)
        fac == VelocityFactor(name, k, p)
    IN IF name \in {"UVEL", "VVEL"}
       THEN (IF fac # 0 THEN DivByFrac(raw, fac) ELSE raw)
       ELSE NcValue(file_prefix_dict[name], k, t - 1, i, j)

\* C10: from the filtering on, and so at every interpolation, no source
\* point has a longitude >= 0, every point with a negative longitude is
\* kept, and column p of the coordinates, of the mask, of hFacC, hFacW and
\* hFacS and of every variable's grid belongs to one and the same source
\* point.
C10_FilteredAligned ==
    Filtered =>
        LET kept == Range0(CountTrue(local_indices, total_points))
        IN /\ DOMAIN ecco_XC_points = kept /\ DOMAIN ecco_YC_points = kept
           /\ \A q \in Range0(total_points) :
                  local_indices[q] <=>
                      TileLon(tile_list[(q \div TilePts) + 1], (q % TilePts) \div TileCols,
                              q % TileCols) < 0
           /\ \A p \in kept :
               LET t == OriginTile(p)
                   i == OriginRow(p)
                   j == OriginCol(p)
               IN /\ ecco_XC_points[p] < 0
                  /\ ecco_XC_points[p] = TileLon(t, i, j)
                  /\ ecco_YC_points[p] = TileLat(t, i, j)
                  /\ \A k \in Levels :
                      /\ ecco_hFacC_points[k][p] = ecco_hFacC_tiles[t][k][i][j]
                      /\ ecco_hFacW_points[k][p] = ecco_hFacW_tiles[t][k][i][j]
                      /\ ecco_hFacS_points[k][p] = ecco_hFacS_tiles[t][k][i][j]
                      /\ ecco_mask_points[k][p] = (IF ecco_hFacC_tiles[t][k][i][j] > 0 THEN 1 ELSE 0)
                  /\ \A n \in 1..Len(init_grids) : \A k \in DOMAIN init_grids[n] :
                         init_grids[n][k][p] = ValueAt(n, k, p, t, i, j)
           /\ \A k \in Levels :
                  /\ DOMAIN ecco_mask_points[k] = kept /\ DOMAIN ecco_hFacC_points[k] = kept
                  /\ DOMAIN ecco_hFacW_points[k] = kept /\ DOMAIN ecco_hFacS_points[k] = kept
           /\ \A n \in 1..Len(init_grids) : \A k \in DOMAIN init_grids[n] :
                  DOMAIN init_grids[n][k] = kept

\* the interpolation is reached with a point of longitude 0 removed, and
\* with a point kept that stood behind a removed one
C10_Witness ==
    /\ notebook = "ic" /\ pc = "interp" /\ Len(init_grids) = Len(variable_names)
    /\ \E q \in Range0(total_points) :
           /\ ~local_indices[q]
           /\ TileLon(tile_list[(q \div TilePts) + 1], (q % TilePts) \div TileCols, q % TileCols) = 0
    /\ \E q, r \in Range0(total_points) : q < r /\ ~local_indices[q] /\ local_indices[r]

\* ------------------------------------------------------- vertical levels
\* the initial-condition loop has written the file of its n-th variable
WroteIC(n) == notebook = "ic" /\ output_file = ICFile(variable_names[n])

\* the grid prepared for the n-th variable with level k2 replaced by the
\* constant v, interpolated
WithLevel(n, k2, v) ==
    InterpolatedIC(variable_names[n],
                   [init_grids[n] EXCEPT ![k2] = [p \in DOMAIN init_grids[n][k2] |-> v]],
                   ecco_XC_points, ecco_YC_points, ecco_mask_points, mask)

\* C11: the output of THETA, SALT, UVEL and VVEL has the levels of the
\* target mask, level k interpolated from source level k against mask level
\* k and from no other source level; the output of ETAN is one level, from
\* the surface values against mask level 0, and its file holds rows * cols
\* values.
C11_LevelsMatch ==
    \A n \in 1..Len(variable_names) : WroteIC(n) =>
        LET points == ColumnStack(ecco_XC_points, ecco_YC_points)
            nl == IF variable_names[n] = "ETAN" THEN 1 ELSE Nr
        IN /\ DOMAIN mask = Range0(Nr)
           /\ DOMAIN interpolated_grid = Range0(nl)
           /\ DOMAIN init_grids[n] = Range0(nl)
           /\ DOMAIN files[output_file] = Range0(4 * nl * n_rows * n_cols)
           /\ \A k \in Range0(nl) :
                  /\ interpolated_grid[k] =
                         downscale_level(points, init_grids[n][k], ecco_mask_points[k],
                                         XC, YC, mask[k])
                  /\ \A p \in DOMAIN init_grids[n][k] :
                         LET o == OriginIndex(p)
                         IN init_grids[n][k][p] =
                                ValueAt(n, k, p, tile_list[(o \div TilePts) + 1],
                                        (o % TilePts) \div TileCols, o % TileCols)
                  /\ \A k2 \in Range0(nl) \ {k} : \A v \in AltValues :
                         WithLevel(n, k2, v)[k] = interpolated_grid[k]

\* THETA was written with levels that differ, against mask levels that
\* differ, after the one-level file of ETAN
C11_Witness ==
    /\ WroteIC(2)
    /\ interpolated_grid[0] # interpolated_grid[1]
    /\ mask[0] # mask[1]
    /\ init_grids[2][0] # init_grids[2][1]
    /\ "ETAN_IC.bin" \in DOMAIN files
    /\ DOMAIN files["ETAN_IC.bin"] = Range0(4 * n_rows * n_cols)
    /\ DOMAIN files[output_file] = Range0(4 * Nr * n_rows * n_cols)

\* ------------------------------------------------- forcing: the timesteps
\* the timestep loop of a forcing variable is running or has just ended
InTimestepLoop == notebook = "exf" /\ pc \in {"exf_interp", "exf_write"}

\* slot t as the interpolation of source timestep t of the current variable
SlotOf(t) ==
    downscale_2D_points_with_zeros(ecco_points, Ravel2(exf_grids[var_pos][t], ExfRows, ExfCols),
                                   ecco_mask, XC, YC, surface_mask)

ZeroSlot == [i \in Range0(n_rows) |-> [j \in Range0(n_cols) |-> 0]]

\* in the loop, the slots below timestep hold the interpolation of their
\* own source timestep and the others are as allocated
SlotsDone ==
    InTimestepLoop =>
        /\ DOMAIN interpolated_grid = DOMAIN exf_grids[var_pos]
        /\ \A t \in DOMAIN interpolated_grid :
               interpolated_grid[t] = IF t < timestep THEN SlotOf(t) ELSE ZeroSlot

\* a step of the loop writes slot timestep, from source timestep timestep,
\* moves on to the next slot and leaves the other slots, the source
\* points, the source mask, the source fields and the target mask alone
SlotStep ==
    (notebook = "exf" /\ pc = "exf_interp") =>
        /\ interpolated_grid'[timestep] = SlotOf(timestep)
        /\ \A t \in DOMAIN interpolated_grid \ {timestep} :
               interpolated_grid'[t] = interpolated_grid[t]
        /\ timestep' = timestep + 1
        /\ UNCHANGED <<ecco_points, ecco_mask, surface_mask, exf_grids, var_pos, files>>

\* C12: slot t of a forcing variable's output is written once, from source
\* timestep t, against the same source points and target mask at every t,
\* and writing it changes no other slot, nor the points, nor the mask.
C12_PerTimestep == [](SlotsDone) /\ [][SlotStep]_vars

\* the loop ended over source timesteps that differ, with slots that
\* differ and a masked target cell
C12_Witness ==
    /\ notebook = "exf" /\ pc = "exf_write" /\ timestep > 1
    /\ exf_grids[var_pos][0] # exf_grids[var_pos][1]
    /\ interpolated_grid[0] # interpolated_grid[1]
    /\ interpolated_grid[0] # ZeroSlot /\ interpolated_grid[1] # ZeroSlot
    /\ \E i \in Range0(n_rows), j \in Range0(n_cols) : surface_mask[i][j] = 0

\* ------------------------------------------------------ the output files
\* the steps of the forcing notebook after its interpolation loop
AfterExfLoop == {"exf_plot", "exf_zero_u", "exf_zero_v", "done"}

\* the variables whose file the loop of the notebook has written
WrittenCount ==
    IF notebook = "ic"
    THEN (IF pc \in {"plot", "done"} THEN Len(variable_names)
          ELSE IF pc = "interp" THEN var_pos - 1 ELSE 0)
    ELSE (IF pc \in {"exf_alloc", "exf_interp", "exf_write"} \cup AfterExfLoop THEN var_pos - 1
          ELSE 0)

\* the name of the file of the n-th variable: <VARIABLE>_IC.bin, or
\* <VARIABLE>_<year> in the directory exf
FileNameOf(n) ==
    IF notebook = "ic" THEN variable_names[n] \o "_IC.bin"
    ELSE "exf/" \o exf_variable_names[n] \o "_2008"

\* the bytes of the field built from the source data of the n-th variable
FileContentOf(n) ==
    IF notebook = "ic"
    THEN ToFile(Ravel3(WrittenIC(n), IF variable_names[n] = "ETAN" THEN 1 ELSE Nr, n_rows, n_cols))
    ELSE LET name == exf_variable_names[n]
             src == read_ecco_exf_file(name).exf_grid
             g == [t \in Range0(in_nt) |->
                      downscale_2D_points_with_zeros(ecco_points, Ravel2(src[t], ExfRows, ExfCols),
                                                     ecco_mask, XC, YC, surface_mask)]
         IN ToFile(Ravel3(Convert(name, g), in_nt, n_rows, n_cols))

\* the files of the zero wind cell, which are no variable's
ZeroWindFiles == {ZeroWindFile("UWIND"), ZeroWindFile("VWIND")}

\* one file for each variable done, under its name, with its field
FilesByVariable ==
    /\ DOMAIN files \ ZeroWindFiles = {FileNameOf(n) : n \in 1..WrittenCount}
    /\ Cardinality(DOMAIN files \ ZeroWindFiles) = WrittenCount
    /\ \A n \in 1..WrittenCount : files[FileNameOf(n)] = FileContentOf(n)
    /\ notebook = "ic" /\ pc \in {"interp", "plot", "done"} =>
           /\ Len(init_grids) = Len(variable_names)
           /\ \A n \in 1..Len(init_grids) : \A k \in DOMAIN init_grids[n] :
                  \A p \in DOMAIN init_grids[n][k] :
                      LET o == OriginIndex(p)
                      IN init_grids[n][k][p] =
                             ValueAt(n, k, p, tile_list[(o \div TilePts) + 1],
                                     (o % TilePts) \div TileCols, o % TileCols)
    /\ notebook = "exf" /\ WrittenCount > 0 =>
           /\ Len(exf_grids) = Len(exf_variable_names)
           /\ \A n \in 1..Len(exf_grids) :
                  exf_grids[n] = read_ecco_exf_file(exf_variable_names[n]).exf_grid

\* a file that exists stays as it is, and a step writes at most one file
FilesKept ==
    /\ \A f \in DOMAIN files : f \in DOMAIN files' /\ files'[f] = files[f]
    /\ Cardinality(DOMAIN files' \ DOMAIN files) <= 1

\* C13: a run leaves one file for each variable, named <VARIABLE>_IC.bin or
\* <VARIABLE>_<year>; the file of the i-th variable holds the field built
\* from the i-th variable's source data; a file is written once and is not
\* changed afterwards.
C13_OneFilePerVariable == [](FilesByVariable) /\ [][FilesKept]_vars

\* the initial-condition loop has ended with five files, two of which hold
\* different fields of the same size
C13_Witness ==
    /\ notebook = "ic" /\ pc = "plot"
    /\ DOMAIN files = {"ETAN_IC.bin", "THETA_IC.bin", "SALT_IC.bin", "UVEL_IC.bin", "VVEL_IC.bin"}
    /\ files["THETA_IC.bin"] # files["SALT_IC.bin"]
    /\ files["UVEL_IC.bin"] # files["VVEL_IC.bin"]

\* -------------------------------------------------------- array shapes
\* the value array of the n-th variable has the columns of the coordinate
\* arrays and of the source mask at every level
SamePoints(n) ==
    \A k \in DOMAIN init_grids[n] :
        /\ DOMAIN init_grids[n][k] = DOMAIN ecco_XC_points
        /\ DOMAIN init_grids[n][k] = DOMAIN ecco_YC_points
        /\ DOMAIN init_grids[n][k] = DOMAIN ecco_mask_points[k]

\* the value array of the n-th variable has the levels of the source mask
SameLevels(n) == DOMAIN init_grids[n] = DOMAIN ecco_mask_points

\* the tiles of the field files do not have the size of the tiles of the
\* grid files
PointMismatch == notebook = "ic" /\ TileRows * in_fcols # TilePts

MinOf(S) == CHOOSE v \in S : \A w \in S : v <= w
MaxOf(S) == CHOOSE v \in S : \A w \in S : w <= v

\* the scenario of the specification: a target grid of 3 rows and 3
\* columns with a checkerboard mask, and four valid source points at the
\* corners of the grid with the values 10, 20, 30 and 40
ScenarioMask == [i \in 0..2 |-> [j \in 0..2 |-> IF (i + j) % 2 = 0 THEN 1 ELSE 0]]
ScenarioX == [i \in 0..2 |-> [j \in 0..2 |-> j]]
ScenarioY == [i \in 0..2 |-> [j \in 0..2 |-> i]]
ScenarioPoints == [p \in 0..3 |-> <<2 * (p % 2), 2 * (p \div 2)>>]
ScenarioValues == [p \in 0..3 |-> 10 * (p + 1)]
ScenarioOut ==
    downscale_level(ScenarioPoints, ScenarioValues, [p \in 0..3 |-> 1], ScenarioX, ScenarioY,
                    ScenarioMask)

\* C15: at a level with valid source points, the value of a valid target
\* cell is not below the least and not above the greatest of the valid
\* source values, and the value of a masked cell is 0; in the checkerboard
\* scenario the unmasked cells hold values in 10..40 and the masked cells 0.
C15_RangePreserved ==
    /\ \A c \in Calls : ValidOf(c) # {} =>
           \A ij \in Cells :
               IF c.tmask[ij[1]][ij[2]] # 0
               THEN /\ MinOf(ValidValues(c)) <= c.out[ij[1]][ij[2]]
                    /\ c.out[ij[1]][ij[2]] <= MaxOf(ValidValues(c))
               ELSE c.out[ij[1]][ij[2]] = 0
    /\ \A i \in 0..2, j \in 0..2 :
           IF ScenarioMask[i][j] = 1
           THEN 10 <= ScenarioOut[i][j] /\ ScenarioOut[i][j] <= 40
           ELSE ScenarioOut[i][j] = 0

\* a call gave a valid cell a value strictly between the extremes that is
\* the value of no source point, another valid cell an extreme, and a
\* masked cell 0, from valid values on both sides of 0
C15_Witness ==
    \E c \in Calls :
        /\ ValidOf(c) # {}
        /\ MinOf(ValidValues(c)) < 0 /\ MaxOf(ValidValues(c)) > 0
        /\ \E ij \in ValidCells(c) :
               /\ MinOf(ValidValues(c)) < c.out[ij[1]][ij[2]]
               /\ c.out[ij[1]][ij[2]] < MaxOf(ValidValues(c))
               /\ c.out[ij[1]][ij[2]] \notin ValidValues(c)
        /\ \E ij \in ValidCells(c) :
               c.out[ij[1]][ij[2]] \in {MinOf(ValidValues(c)), MaxOf(ValidValues(c))}
        /\ \E ij \in Cells \ ValidCells(c) : c.out[ij[1]][ij[2]] = 0

\* ------------------------------------------------- velocity components
\* the read loop has run over field tiles of the size of the grid tiles
VelocitiesRead ==
    notebook = "ic" /\ pc \in {"interp", "plot", "done"} /\ Len(init_grids) = Len(variable_names)

\* init_grid of a velocity variable as the loop over the tiles leaves it,
\* before the points are filtered and the values corrected
FilledVelocity(name) ==
    Stored(FillTiles(Zeros2(NLev, TilePts * Len(tile_list)), name, NcField("SALT"),
                     NcField("UVELMASS"), NcField("VVELMASS"), TilePts, tile_list,
                     Len(tile_list)))

\* the position of a velocity variable in variable_names
VelocityIndex(name) == CHOOSE n \in 1..Len(variable_names) : variable_names[n] = name

\* C16: in the block of every selected tile t, at every level, UVEL holds
\* UVELMASS and VVEL holds VVELMASS of tile t where t < 7, and UVEL holds
\* VVELMASS and VVEL holds UVELMASS negated where t >= 7; the grids
\* prepared for interpolation are these, filtered and corrected.
C16_TileRotation ==
    VelocitiesRead =>
        LET filled_u == FilledVelocity("UVEL")
            filled_v == FilledVelocity("VVEL")
        IN /\ \A m \in 1..Len(tile_list) : \A k \in Levels :
                  \A i \in Range0(TileRows), j \in Range0(TileCols) :
                      LET t == tile_list[m]
                          q == (m - 1) * TilePts + i * TileCols + j
                          U == NcValue("UVELMASS", k, t - 1, i, j)
                          V == NcValue("VVELMASS", k, t - 1, i, j)
                      IN /\ filled_u[k][q] = IF t < 7 THEN U ELSE V
                         /\ filled_v[k][q] = IF t < 7 THEN V ELSE 0 - U
           /\ init_grids[VelocityIndex("UVEL")] =
                  Correct(BoolIndexCols(filled_u, local_indices, total_points, NLev),
                          ecco_hFacW_points)
           /\ init_grids[VelocityIndex("VVEL")] =
                  Correct(BoolIndexCols(filled_v, local_indices, total_points, NLev),
                          ecco_hFacS_points)

\* the velocities were read over a tile below 7 and a tile from 7 on, both
\* with points kept, where the two transports differ and are not 0
C16_Witness ==
    /\ VelocitiesRead
    /\ \E p, r \in DOMAIN ecco_XC_points :
           /\ OriginTile(p) < 7 /\ OriginTile(r) >= 7
           /\ \E k \in Levels :
                  /\ NcValue("UVELMASS", k, OriginTile(r) - 1, OriginRow(r), OriginCol(r)) # 0
                  /\ NcValue("UVELMASS", k, OriginTile(r) - 1, OriginRow(r), OriginCol(r)) #
                         NcValue("VVELMASS", k, OriginTile(r) - 1, OriginRow(r), OriginCol(r))
                  /\ NcValue("UVELMASS", k, OriginTile(p) - 1, OriginRow(p), OriginCol(p)) #
                         NcValue("VVELMASS", k, OriginTile(p) - 1, OriginRow(p), OriginCol(p))
                  /\ init_grids[VelocityIndex("VVEL")][k][r] # 0

\* the open fraction of the face the raw value of a velocity variable was
\* defined on, at level k of the point of column p: the west face for a
\* value of UVELMASS, the south face for a value of VVELMASS
FaceFactor(variable_name, k, p) ==
    LET from_u == (variable_name = "UVEL") <=> (OriginTile(p) < 7)
    IN IF from_u THEN ecco_hFacW_points[k][p] ELSE ecco_hFacS_points[k][p]

\* C17: on every selected tile, the tiles from 7 on included, a raw
\* transport value is divided by the open fraction of the face it was
\* defined on, at the same level and point: hFacW for a value taken from
\* UVELMASS, hFacS for a value taken from VVELMASS.
C17_FaceFactor ==
    \A n \in VelocityGrids : \A k \in Levels : \A p \in DOMAIN init_grids[n][k] :
        LET face == FaceFactor(variable_names[n], k, p)
            v == RawTransport(variable_names[n], k, p)
        IN IF face # 0 THEN init_grids[n][k][p] * face = v * HFacDen
           ELSE init_grids[n][k][p] = v

\* the array named cur_name was read from the files of variable_name: the
\* field of that name, or a transport field for a velocity
ReadFor(variable_name, cur_name) ==
    \/ cur_name = variable_name
    \/ variable_name \in {"UVEL", "VVEL"} /\ cur_name \in {"UVELMASS", "VVELMASS"}

\* C18: in the loop that reads the fields, the array N and the size of
\* init_grid are computed from was read for the variable of that same
\* iteration, never left over from an earlier iteration or bound before
\* the loop.
C18_SizeFromOwnArray ==
    notebook = "ic" /\ pc \in {"read", "interp"} /\ Len(init_grids) >= 1
        => ReadFor(variable_names[Len(init_grids)], grid)

\* ------------------------------------------------- concatenation of tiles
\* init_grid of the n-th variable as the loop over the tiles leaves it,
\* before the points are filtered and the values corrected
FilledGrid(n) ==
    LET cur_name == GridNameAt(n)
        N == PointsPerTile(cur_name)
        nl == IF variable_names[n] = "ETAN" THEN 1 ELSE NLev
    IN Stored(FillTiles(Zeros2(nl, N * Len(tile_list)), variable_names[n], GridArray(cur_name),
                        NcField("UVELMASS"), NcField("VVELMASS"), N, tile_list,
                        Len(tile_list)))

\* the filtering and the correction of the n-th variable applied to filled
FilteredGrid(n, filled) ==
    LET local == BoolIndexCols(filled, local_indices, total_points, Cardinality(DOMAIN filled))
    IN CASE variable_names[n] = "UVEL" -> Correct(local, ecco_hFacW_points)
         [] variable_names[n] = "VVEL" -> Correct(local, ecco_hFacS_points)
         [] OTHER -> local

\* the index of the cell (i, j) of the m-th selected tile
BlockIndex(m, i, j) == (m - 1) * TilePts + i * TileCols + j

\* C19: the points of the m-th selected tile occupy the block
\* (m-1)*TilePts .. m*TilePts-1 of the coordinate arrays, of the mask and
\* hFac arrays and of every variable's array of values; the blocks follow
\* tile_list, do not overlap and cover 0 .. total_points-1; and the block
\* of tile number t holds the values at index t-1 of the tile axis of the
\* field, the tile whose coordinates are read under key t.
C19_TilesAligned ==
    /\ notebook = "ic" /\ pc \in {"concat", "filter"} =>
           /\ total_points = Len(tile_list) * TilePts
           /\ points_counted = (tile_pos - 1) * TilePts
           /\ pc = "filter" => points_counted = total_points
           /\ DOMAIN ecco_XC_points = Range0(total_points)
           /\ DOMAIN ecco_YC_points = Range0(total_points)
           /\ \A k \in Levels :
                  /\ DOMAIN ecco_hFacC_points[k] = Range0(total_points)
                  /\ DOMAIN ecco_hFacW_points[k] = Range0(total_points)
                  /\ DOMAIN ecco_hFacS_points[k] = Range0(total_points)
                  /\ DOMAIN ecco_mask_points[k] = Range0(total_points)
           /\ \A m \in 1..(tile_pos - 1) : \A i \in Range0(TileRows), j \in Range0(TileCols) :
                  LET t == tile_list[m]
                      q == BlockIndex(m, i, j)
                  IN /\ ecco_XC_points[q] = ecco_XC_tiles[t][i][j]
                     /\ ecco_YC_points[q] = ecco_YC_tiles[t][i][j]
                     /\ \A k \in Levels :
                            /\ ecco_hFacC_points[k][q] = ecco_hFacC_tiles[t][k][i][j]
                            /\ ecco_hFacW_points[k][q] = ecco_hFacW_tiles[t][k][i][j]
                            /\ ecco_hFacS_points[k][q] = ecco_hFacS_tiles[t][k][i][j]
                            /\ ecco_mask_points[k][q] =
                                   (IF ecco_hFacC_tiles[t][k][i][j] > 0 THEN 1 ELSE 0)
    /\ notebook = "ic" /\ pc \in {"read", "interp"} =>
           \A n \in 1..Len(init_grids) :
               LET filled == FilledGrid(n)
                   name == variable_names[n]
               IN /\ init_grids[n] = FilteredGrid(n, filled)
                  /\ \A k \in DOMAIN filled :
                         /\ DOMAIN filled[k] = Range0(total_points)
                         /\ \A m \in 1..Len(tile_list) :
                                \A i \in Range0(TileRows), j \in Range0(TileCols) :
                                    LET t == tile_list[m]
                                    IN filled[k][BlockIndex(m, i, j)] =
                                           IF name \in {"UVEL", "VVEL"}
                                           THEN RawTransportAt(name, k, t, i, j)
                                           ELSE NcValue(file_prefix_dict[name], k, t - 1, i, j)

\* every variable was read over two tiles whose longitudes and whose
\* values of THETA differ at the same cell
C19_Witness ==
    /\ notebook = "ic" /\ pc = "interp" /\ Len(init_grids) = Len(variable_names)
    /\ Len(tile_list) = 2 /\ total_points = 2 * TilePts
    /\ \E i \in Range0(TileRows), j \in Range0(TileCols) :
           /\ ecco_XC_tiles[tile_list[1]][i][j] # ecco_XC_tiles[tile_list[2]][i][j]
           /\ NcValue("THETA", 0, tile_list[1] - 1, i, j) # NcValue("THETA", 0, tile_list[2] - 1, i, j)

\* ------------------------------------------------------- unit conversion
\* the value written for the interpolated value v of a forcing variable
ConvertedValue(variable_name, v) ==
    CASE variable_name = "ATEMP" -> v + KelvinOffset
      [] variable_name \in {"SWDOWN", "LWDOWN"} -> 0 - v
      [] OTHER -> v

\* the interpolation of source timestep t of the n-th forcing variable
ExfSlot(n, t) ==
    downscale_2D_points_with_zeros(ecco_points, Ravel2(exf_grids[n][t], ExfRows, ExfCols),
                                   ecco_mask, XC, YC, surface_mask)

\* the forcing variables whose file has been written
ExfWritten ==
    IF notebook = "exf" /\ pc \in {"exf_alloc", "exf_interp", "exf_write"} \cup AfterExfLoop
    THEN 1..(var_pos - 1) ELSE {}

\* the file of every variable written holds, at every timestep and cell,
\* the interpolated value converted once, by the conversion of its own
\* variable
FilesConverted ==
    \A n \in ExfWritten :
        LET name == exf_variable_names[n]
            expected == [t \in Range0(in_nt) |->
                            LET slot == ExfSlot(n, t)
                            IN [i \in Range0(n_rows) |-> [j \in Range0(n_cols) |->
                                   ConvertedValue(name, slot[i][j])]]]
        IN /\ ExfFile(name) \in DOMAIN files
           /\ files[ExfFile(name)] = ToFile(Ravel3(expected, in_nt, n_rows, n_cols))

\* the grid is converted in the step that writes it, element by element,
\* after the loop over the timesteps has ended, and in no other step
ConvertStep ==
    notebook = "exf" =>
        IF pc = "exf_write"
        THEN /\ timestep = Cardinality(DOMAIN interpolated_grid)
             /\ DOMAIN interpolated_grid' = DOMAIN interpolated_grid
             /\ \A t \in DOMAIN interpolated_grid :
                    \A i \in Range0(n_rows), j \in Range0(n_cols) :
                        interpolated_grid'[t][i][j] =
                            ConvertedValue(exf_variable_names[var_pos], interpolated_grid[t][i][j])
             /\ files' = WriteFile(files, ExfFile(exf_variable_names[var_pos]),
                                   ToFile(Ravel3(interpolated_grid', in_nt, n_rows, n_cols)))
             /\ UNCHANGED exf_grids
        ELSE /\ \A f \in DOMAIN files : f \in DOMAIN files' /\ files'[f] = files[f]
             /\ pc \notin {"exf_alloc", "exf_interp"} => interpolated_grid' = interpolated_grid

\* C20: once all timesteps of a forcing variable are interpolated and
\* before its file is written, ATEMP has 273.15 added to every element,
\* SWDOWN and LWDOWN have every element multiplied by -1, and AQH, UWIND,
\* VWIND and PRECIP are left as interpolated; the conversion is applied
\* once for each variable, to that variable's grid only.
C20_UnitConversion == [](FilesConverted) /\ [][ConvertStep]_vars

\* all files are written, with values other than 0 interpolated for ATEMP,
\* for SWDOWN and for AQH
C20_Witness ==
    /\ notebook = "exf" /\ pc = "done" /\ ExfWritten = 1..Len(exf_variable_names)
    /\ \A name \in {"ATEMP", "SWDOWN", "AQH"} :
           \E t \in Range0(in_nt), i \in Range0(n_rows), j \in Range0(n_cols) :
               LET v == ExfSlot(ExfOrdinal(name), t)[i][j]
               IN /\ v # 0
                  /\ FileValues(ExfFile(name))[(t * n_rows + i) * n_cols + j] =
                         F4Round(ConvertedValue(name, v))

\* --------------------------------------------- read back of the forcing
\* the plotting cell has been run to its end or to its exception
PlotEnded == notebook = "exf" /\ pc \in {"exf_zero_u", "exf_zero_v", "done"}

\* the plotting loop has read back the file of a variable
HasReadBack == notebook = "exf" /\ pc \in AfterExfLoop /\ plot_i >= 1

\* timestep 0 of the plot_i-th variable as the interpolation loop wrote it
WrittenFirstStep ==
    LET name == exf_variable_names[plot_i]
        slot == ExfSlot(plot_i, 0)
    IN [i \in Range0(n_rows) |-> [j \in Range0(n_cols) |->
           F4Round(ConvertedValue(name, slot[i][j]))]]

WindNames == {"UWIND", "VWIND"}

\* every zero wind file there is holds as many 4-byte values as the wind
\* file of its variable, every one of them 0 when read as '>f4', and the
\* wind file is as the interpolation loop wrote it
ZeroWindRight ==
    \A name \in WindNames :
        ZeroWindFile(name) \in DOMAIN files =>
            LET zero == files[ZeroWindFile(name)]
            IN /\ ExfFile(name) \in DOMAIN files
               /\ Cardinality(DOMAIN zero) = Cardinality(DOMAIN files[ExfFile(name)])
               /\ Cardinality(DOMAIN zero) = 4 * in_nt * n_rows * n_cols
               /\ \A n \in DOMAIN FromFile(zero) : FromFile(zero)[n] = 0
               /\ files[ExfFile(name)] = FileContentOf(ExfOrdinal(name))

\* a step of the zero wind cell adds the zero wind file of its variable
\* and leaves every file there was, the two wind files included, as it is
ZeroWindStep ==
    notebook = "exf" /\ pc \in {"exf_zero_u", "exf_zero_v"} =>
        LET name == IF pc = "exf_zero_u" THEN "UWIND" ELSE "VWIND"
        IN /\ DOMAIN files' = DOMAIN files \cup {ZeroWindFile(name)}
           /\ ZeroWindFile(name) \notin DOMAIN files
           /\ \A f \in DOMAIN files : files'[f] = files[f]
           /\ \A w \in WindNames : ExfFile(w) \in DOMAIN files

\* C22: once the interpolation loop has written UWIND_<year> and
\* VWIND_<year>, the files UWIND_zero_<year> and VWIND_zero_<year> hold as
\* many 4-byte big-endian values as the wind file of their variable, every
\* value is 0, and the two wind files are left as they were.
C22_ZeroWind == [](ZeroWindRight) /\ [][ZeroWindStep]_vars

\* both zero wind files are written, from wind files that differ, hold
\* values other than 0 and a value below 0, whose product with 0 keeps the
\* sign bit
C22_Witness ==
    /\ notebook = "exf" /\ pc = "done"
    /\ \A name \in WindNames :
           /\ ZeroWindFile(name) \in DOMAIN files
           /\ \E n \in DOMAIN FileValues(ExfFile(name)) : FileValues(ExfFile(name))[n] > 0
           /\ \E n \in DOMAIN FileValues(ExfFile(name)) : FileValues(ExfFile(name))[n] < 0
           /\ \E b \in DOMAIN files[ZeroWindFile(name)] : files[ZeroWindFile(name)][b] # 0
    /\ files[ExfFile("UWIND")] # files[ExfFile("VWIND")]

====
